---- MODULE Spec2Model ----
(***************************************************************************)
(* Model of AdvancedPython/TheNeedForSpeed.ipynb: the two solvers that     *)
(* carry code (gaussSimple in Python, gauss in C++) and the benchmark      *)
(* harness gausstest.speed / parspeed.                                     *)
(*                                                                         *)
(* Numbers: a double is modelled as an exact rational with a sign, or one  *)
(* of the IEEE-754 specials (signed infinity, NaN, signed zero). The       *)
(* operators F... give the exact result of every finite operation;         *)
(* RoundTripResidue gives one computation as binary64 rounds it.           *)
(***************************************************************************)
EXTENDS Integers, Sequences, FiniteSets, TLC

(***************************************************************************)
(* Bounds of the model.                                                    *)
(***************************************************************************)
MaxN == 3          \* largest dimension n of the systems given to the solvers
MaxSizeSteps == 20 \* the sweep is given maxSize = 0, 10, ..., 10 * MaxSizeSteps

(***************************************************************************)
(* Constants of the program.                                               *)
(***************************************************************************)
BaseSize == 50     \* prev,n = 0.0, 50
Repeats == 5       \* repeat=5
NumberTwice == 1 + 1 \* number=2: the statement runs twice between the timer reads
Number == 1        \* number=1
SeedValue == 123456 \* seed(123456)
NumThreads == 2     \* os.environ["NUMBA_NUM_THREADS"]="2"

----------------------------------------------------------------------------
(***************************************************************************)
(* IEEE-754 double arithmetic, exact on finite values.                     *)
(* A value is [k |-> "fin"|"inf"|"nan", s |-> 0|1 (1 is negative),         *)
(*             n |-> numerator >= 0, d |-> denominator > 0].               *)
(***************************************************************************)
RECURSIVE Gcd(_, _)
Gcd(a, c) == IF c = 0 THEN a ELSE Gcd(c, a % c)

NaN == [k |-> "nan", s |-> 0, n |-> 0, d |-> 1]
Inf(s) == [k |-> "inf", s |-> s, n |-> 0, d |-> 1]
Zero(s) == [k |-> "fin", s |-> s, n |-> 0, d |-> 1]

\* the finite value (-1)^s * n/d in lowest terms
Fin(s, n, d) ==
    IF n = 0 THEN Zero(s)
    ELSE LET g == Gcd(n, d) IN [k |-> "fin", s |-> s, n |-> n \div g, d |-> d \div g]

\* the double of an integer literal
Num(z) == IF z < 0 THEN Fin(1, -z, 1) ELSE Fin(0, z, 1)

IsNaN(a) == a.k = "nan"
IsZero(a) == a.k = "fin" /\ a.n = 0
IsFinite(a) == a.k = "fin"
Xor(s, t) == IF s = t THEN 0 ELSE 1

\* unary minus: flips the sign, also of zero and infinity
FNeg(a) == IF IsNaN(a) THEN NaN ELSE [a EXCEPT !.s = 1 - a.s]

\* fabs / abs
FAbs(a) == IF IsNaN(a) THEN NaN ELSE [a EXCEPT !.s = 0]

\* a + b
FAdd(a, c) ==
    IF IsNaN(a) \/ IsNaN(c) THEN NaN
    ELSE IF a.k = "inf" /\ c.k = "inf" THEN (IF a.s = c.s THEN a ELSE NaN)
    ELSE IF a.k = "inf" THEN a
    ELSE IF c.k = "inf" THEN c
    ELSE LET sa == IF a.s = 1 THEN -a.n ELSE a.n
             sc == IF c.s = 1 THEN -c.n ELSE c.n
             num == sa * c.d + sc * a.d
             den == a.d * c.d
         IN  IF num = 0 THEN Zero(IF a.s = 1 /\ c.s = 1 THEN 1 ELSE 0)
             ELSE IF num < 0 THEN Fin(1, -num, den)
             ELSE Fin(0, num, den)

\* a - b
FSub(a, c) == FAdd(a, FNeg(c))

\* a * b
FMul(a, c) ==
    IF IsNaN(a) \/ IsNaN(c) THEN NaN
    ELSE IF (a.k = "inf" /\ IsZero(c)) \/ (IsZero(a) /\ c.k = "inf") THEN NaN
    ELSE IF a.k = "inf" \/ c.k = "inf" THEN Inf(Xor(a.s, c.s))
    ELSE Fin(Xor(a.s, c.s), a.n * c.n, a.d * c.d)

\* a / b in C++ (IEEE): a zero divisor gives an infinity or NaN, no trap
FDiv(a, c) ==
    IF IsNaN(a) \/ IsNaN(c) THEN NaN
    ELSE IF a.k = "inf" /\ c.k = "inf" THEN NaN
    ELSE IF IsZero(a) /\ IsZero(c) THEN NaN
    ELSE IF a.k = "inf" THEN Inf(Xor(a.s, c.s))
    ELSE IF c.k = "inf" THEN Zero(Xor(a.s, c.s))
    ELSE IF IsZero(c) THEN Inf(Xor(a.s, c.s))
    ELSE Fin(Xor(a.s, c.s), a.n * c.d, a.d * c.n)

\* a < b; every comparison with NaN is false; -0 = +0
FLt(a, c) ==
    IF IsNaN(a) \/ IsNaN(c) THEN FALSE
    ELSE IF a.k = "inf" /\ c.k = "inf" THEN a.s = 1 /\ c.s = 0
    ELSE IF a.k = "inf" THEN a.s = 1
    ELSE IF c.k = "inf" THEN c.s = 0
    ELSE LET sa == IF a.s = 1 THEN -a.n ELSE a.n
             sc == IF c.s = 1 THEN -c.n ELSE c.n
         IN  sa * c.d < sc * a.d

\* a > b
FGt(a, c) == FLt(c, a)

\* a == b as the languages compare doubles (NaN differs from itself, -0 == 0)
FEq(a, c) ==
    IF IsNaN(a) \/ IsNaN(c) THEN FALSE
    ELSE IF IsZero(a) /\ IsZero(c) THEN TRUE
    ELSE a = c

(***************************************************************************)
(* Rounding. The values above are exact; one computation is also given     *)
(* with the rounding of binary64 (round to nearest, ties to even), because *)
(* whether it gives 0 depends on the rounding alone: a - (a/p)*p, the      *)
(* entry below the pivot after "subtract m times the pivot row".           *)
(* Scaling by a power of two is exact, so for a = +-a0 * 2^u and           *)
(* p = +-p0 * 2^w with a0 and p0 odd the result is that of a0 and p0       *)
(* scaled by 2^u. With E = floor(log2(a0/p0)) the quotient rounds to       *)
(* M * 2^(E-52), where a0 * 2^(52-E) = M0 * p0 + r and M is M0 or M0 + 1,  *)
(* whichever is nearer; the product M * p0 * 2^(E-52) is a0 + D * 2^(E-52) *)
(* with D = -r or p0 - r, and it rounds back to a0 exactly when D is at    *)
(* most half the spacing of the doubles next to a0.                        *)
(***************************************************************************)
MantissaBits == 52   \* the fraction bits of a double

RECURSIVE Pow2(_)
Pow2(k) == IF k = 0 THEN 1 ELSE 2 * Pow2(k - 1)

\* the odd part of a positive integer
RECURSIVE OddPart(_)
OddPart(z) == IF z % 2 = 0 THEN OddPart(z \div 2) ELSE z

\* floor(log2(z)) for a positive integer
RECURSIVE Log2Floor(_)
Log2Floor(z) == IF z <= 1 THEN 0 ELSE 1 + Log2Floor(z \div 2)

\* 2^e mod m
RECURSIVE PowMod2(_, _)
PowMod2(e, m) == IF e = 0 THEN 1 % m ELSE (2 * PowMod2(e - 1, m)) % m

\* a finite non-zero value with a power of two as denominator: in the
\* model's range of values, a double
IsDyadic(a) == a.k = "fin" /\ a.n > 0 /\ a.d = Pow2(Log2Floor(a.d))

\* the double (-1)^s * 2^(-e), for e beyond the denominators of the model
Tiny(s, e) == [k |-> "tiny", s |-> s, n |-> 1, d |-> e]

\* the double a - (a/p)*p, each operation rounded, for doubles a and p;
\* operands that are not doubles are values the model holds exactly where
\* the program holds a rounded one, and the result is then the exact one
RoundTripResidue(a, p) ==
    IF ~(IsDyadic(a) /\ IsDyadic(p)) THEN FSub(a, FMul(FDiv(a, p), p))
    ELSE LET a0 == OddPart(a.n)
             p0 == OddPart(p.n)
             u == Log2Floor(a.n \div a0) - Log2Floor(a.d)
             ka == Log2Floor(a0)
             kp == Log2Floor(p0)
             E == IF a0 * Pow2(kp) >= p0 * Pow2(ka) THEN ka - kp ELSE ka - kp - 1
             r == (a0 * PowMod2(MantissaBits - E, p0)) % p0
             D == IF 2 * r < p0 THEN -r ELSE p0 - r
             half == Pow2(ka - E - 1)
         IN  IF r = 0 THEN Zero(0)
             ELSE IF D > 0
                  THEN IF D <= half THEN Zero(0)
                       ELSE Tiny(1 - a.s, MantissaBits - ka - u)
             ELSE IF a0 # 1
                  THEN IF -D <= half THEN Zero(0)
                       ELSE Tiny(a.s, MantissaBits - ka - u)
             ELSE IF 2 * (-D) <= half THEN Zero(0)
                  ELSE Tiny(a.s, MantissaBits + 1 - ka - u)

----------------------------------------------------------------------------
(***************************************************************************)
(* State.                                                                  *)
(*   solver      which solver the call runs: "gauss" or "gaussSimple"      *)
(*   A, b        the caller's matrix and right-hand side; A maps <<i, j>>  *)
(*               to a value (the dict of gaussSimple, A[i][j] of gauss)    *)
(*   before      the caller's A and b as they were when the call began     *)
(*   n           the dimension (len(b) in gaussSimple, the argument n of   *)
(*               gauss)                                                    *)
(*   U, x        the working copy and the solution vector                  *)
(*   i, j        the loop counters of gauss                                *)
(*   error       the computed maximum error                                *)
(*   pc          the statement the call is at                              *)
(*   outcome     "running", "returned", or the exception raised            *)
(*   divByZero   whether some division so far had a zero divisor           *)
(***************************************************************************)
VARIABLES solver, A, b, before, n, U, x, i, j, error, pc, outcome, divByZero

solverVars == <<solver, A, b, before, n, U, x, i, j, error, pc, outcome, divByZero>>

(***************************************************************************)
(* State of the benchmark sweep.                                           *)
(*   harness     which sweep runs: "speed" or "parspeed"                   *)
(*   maxSize     its argument                                              *)
(*   sizeN, prev the locals n and prev; prev is a fraction <<num, den>>    *)
(*   t           the durations timeit.repeat has collected for this size   *)
(*   rep         the number of timeit() calls timeit.repeat has completed  *)
(*   gcEnabled   gc.isenabled()                                            *)
(*   gcold       the local gcold of Timer.timeit                           *)
(*   rng         the random module: the seed and the draws made since      *)
(*   inst        the A,b bound by the setup statement: the size and the    *)
(*               position in the random stream of its first draw           *)
(*   timing      whether the timer was read for _t0 and not yet for _t1    *)
(*   elapsed     clock ticks since _t0                                     *)
(*   calls       the number of times the statement ran since _t0           *)
(*   printed     the lines printed                                         *)
(*   events      the calls made so far to gc, the setup and the solver     *)
(*   hpc         the statement the sweep is at                             *)
(*   hout        "running", "returned" or "raised"                         *)
(*   failure     the exception that left the sweep, if one did: who raised *)
(*               it and what the frames it passed through added to it      *)
(***************************************************************************)
VARIABLES harness, maxSize, sizeN, prev, t, rep, gcEnabled, gcold, rng, inst,
          timing, elapsed, calls, printed, events, hpc, hout, failure

harnessVars == <<harness, maxSize, sizeN, prev, t, rep, gcEnabled, gcold, rng, inst,
                 timing, elapsed, calls, printed, events, hpc, hout, failure>>

(***************************************************************************)
(* State of the parallel row reduction (Method 5).                         *)
(*   todo        for each worker thread, the rows of the current pass it   *)
(*               has been given and not yet reduced                        *)
(*   wrote       for each worker thread, the rows it wrote in this pass    *)
(***************************************************************************)
VARIABLES todo, wrote

parVars == <<todo, wrote>>

vars == <<solverVars, harnessVars, parVars>>

Idx(m) == 0 .. (m - 1)          \* range(m)
Keys(m) == Idx(m) \X Idx(m)     \* the cells of a dense m x m matrix

----------------------------------------------------------------------------
(***************************************************************************)
(* gauss (gauss.cpp).                                                      *)
(***************************************************************************)

\* lines 333-338: the augmented copy, columns 0..n-1 = A, column n = b
AugmentedCopy(m, AA, bb) ==
    [r \in Idx(m) |-> [c \in 0 .. m |-> IF c < m THEN AA[<<r, c>>] ELSE bb[r]]]

\* the j loop body with the multiplier left out of the update: U[j][k] -= U[i][k]
ReduceRowNoMult(m, UU, ii, jj) ==
    [UU EXCEPT ![jj] =
        [k \in 0 .. m |->
            IF k < ii THEN UU[jj][k]
            ELSE IF k = ii THEN Num(0)
            ELSE FSub(UU[jj][k], UU[ii][k])]]

\* the j loop body that also scales the pivot row to a unit pivot, as the
\* hint does, before it reduces row jj
ReduceRowScalesPivot(m, UU, ii, jj) ==
    LET piv == [k \in 0 .. m |-> IF k < ii THEN UU[ii][k] ELSE FDiv(UU[ii][k], UU[ii][ii])]
    IN  [UU EXCEPT ![ii] = piv,
                   ![jj] = [k \in 0 .. m |->
                               IF k < ii THEN UU[jj][k]
                               ELSE IF k = ii THEN Num(0)
                               ELSE FSub(UU[jj][k], FMul(UU[jj][ii], piv[k]))]]

\* the j loop body with the k loop stopping before the right-hand side: k < n
ReduceRowSkipsRhs(m, UU, ii, jj) ==
    LET mult == FDiv(UU[jj][ii], UU[ii][ii])
    IN  [UU EXCEPT ![jj] =
            [k \in 0 .. m |->
                IF k < ii \/ k = m THEN UU[jj][k]
                ELSE IF k = ii THEN Num(0)
                ELSE FSub(UU[jj][k], FMul(mult, UU[ii][k]))]]

\* the j loop body with "U[j][i] = 0" left out
ReduceRowKeepsColumn(m, UU, ii, jj) ==
    LET mult == FDiv(UU[jj][ii], UU[ii][ii])
    IN  [UU EXCEPT ![jj] =
            [k \in 0 .. m |->
                IF k <= ii THEN UU[jj][k]
                ELSE FSub(UU[jj][k], FMul(mult, UU[ii][k]))]]

\* lines 341-344: the body of the j loop for pivot row ii and row jj
ReduceRow(m, UU, ii, jj) ==
    LET mult == FDiv(UU[jj][ii], UU[ii][ii])
    IN  [UU EXCEPT ![jj] =
            [k \in 0 .. m |->
                IF k < ii THEN UU[jj][k]
                ELSE IF k = ii THEN Num(0)
                ELSE FSub(UU[jj][k], FMul(mult, UU[ii][k]))]]

\* the update as it is prescribed for the same step: with m = U[k][i] /
\* U[i][i], subtract m times row i from row k across the columns i..n
SpecReduceRow(m, UU, ii, jj) ==
    LET mult == FDiv(UU[jj][ii], UU[ii][ii])
    IN  [UU EXCEPT ![jj] =
            [k \in 0 .. m |->
                IF k < ii THEN UU[jj][k]
                ELSE IF k = ii THEN RoundTripResidue(UU[jj][ii], UU[ii][ii])
                ELSE FSub(UU[jj][k], FMul(mult, UU[ii][k]))]]

\* the loop counters after the j loop body ran for (ii, jj): the next pair of
\* "for i in 0..n-1, for j in i+1..n-1", or <<m, m>> when the loops are over
NextPair(m, ii, jj) ==
    IF jj + 1 < m THEN <<ii, jj + 1>>
    ELSE IF ii + 2 < m THEN <<ii + 1, ii + 2>>
    ELSE <<m, m>>

\* the first pair of the loops
FirstPair(m) == IF 1 < m THEN <<0, 1>> ELSE <<m, m>>

\* line 348: x[i] -= U[i][j]*x[j] for j = from..n-1, in that order
RECURSIVE BackSum(_, _, _, _, _, _)
BackSum(m, UU, xx, ii, from, acc) ==
    IF from >= m THEN acc
    ELSE BackSum(m, UU, xx, ii, from + 1, FSub(acc, FMul(UU[ii][from], xx[from])))

\* one iteration of the back-substitution loop with x[i] /= U[i][i] left out
BackRowNoDiv(m, UU, xx, ii) ==
    [xx EXCEPT ![ii] = BackSum(m, UU, xx, ii, ii + 1, UU[ii][m])]

\* lines 347-349: one iteration of the back-substitution loop
BackRow(m, UU, xx, ii) ==
    [xx EXCEPT ![ii] = FDiv(BackSum(m, UU, xx, ii, ii + 1, UU[ii][m]), UU[ii][ii])]

\* lines 353-354: sum = -b[i]; sum += A[i][j]*x[j] for j = from..n-1
RECURSIVE RowSum(_, _, _, _, _, _)
RowSum(m, AA, xx, ii, from, acc) ==
    IF from >= m THEN acc
    ELSE RowSum(m, AA, xx, ii, from + 1, FAdd(acc, FMul(AA[<<ii, from>>], xx[from])))

\* lines 351-356: the maximum error, rows from..n-1 still to visit
RECURSIVE MaxError(_, _, _, _, _, _)
MaxError(m, AA, bb, xx, from, acc) ==
    IF from >= m THEN acc
    ELSE LET sum == RowSum(m, AA, xx, from, 0, FNeg(bb[from]))
         IN  MaxError(m, AA, bb, xx, from + 1,
                      IF FGt(FAbs(sum), acc) THEN FAbs(sum) ELSE acc)

\* lines 333-338
GaussCopy ==
    /\ solver = "gauss" /\ pc = "copy"
    /\ U' = AugmentedCopy(n, A, b)
    /\ i' = FirstPair(n)[1]
    /\ j' = FirstPair(n)[2]
    /\ pc' = IF FirstPair(n)[1] < n THEN "reduce" ELSE "back"
    /\ UNCHANGED <<solver, A, b, before, n, x, error, outcome, divByZero>>
    /\ UNCHANGED harnessVars
    /\ UNCHANGED parVars

\* the j loop body run on the caller's matrix as well: U shares storage with A
GaussReduceInPlace ==
    /\ solver = "gauss" /\ pc = "reduce"
    /\ U' = ReduceRow(n, U, i, j)
    /\ A' = [key \in DOMAIN A |-> U'[key[1]][key[2]]]
    /\ divByZero' = (divByZero \/ IsZero(U[i][i]))
    /\ i' = NextPair(n, i, j)[1]
    /\ j' = NextPair(n, i, j)[2]
    /\ pc' = IF NextPair(n, i, j)[1] < n THEN "reduce" ELSE "back"
    /\ UNCHANGED <<solver, b, before, n, x, error, outcome>>
    /\ UNCHANGED harnessVars
    /\ UNCHANGED parVars

\* lines 339-345, one pass of the j loop body
GaussReduce ==
    /\ solver = "gauss" /\ pc = "reduce"
    /\ U' = ReduceRow(n, U, i, j)
    /\ divByZero' = (divByZero \/ IsZero(U[i][i]))
    /\ i' = NextPair(n, i, j)[1]
    /\ j' = NextPair(n, i, j)[2]
    /\ pc' = IF NextPair(n, i, j)[1] < n THEN "reduce" ELSE "back"
    /\ UNCHANGED <<solver, A, b, before, n, x, error, outcome>>
    /\ UNCHANGED harnessVars
    /\ UNCHANGED parVars

\* line 346: the back-substitution loop starts at i = n-1
GaussBackInit ==
    /\ solver = "gauss" /\ pc = "back"
    /\ i' = n - 1
    /\ pc' = "backrow"
    /\ UNCHANGED <<solver, A, b, before, n, U, x, j, error, outcome, divByZero>>
    /\ UNCHANGED harnessVars
    /\ UNCHANGED parVars

\* lines 346-350, one pass of the loop body
GaussBackRow ==
    /\ solver = "gauss" /\ pc = "backrow" /\ i >= 0
    /\ x' = BackRow(n, U, x, i)
    /\ divByZero' = (divByZero \/ IsZero(U[i][i]))
    /\ i' = i - 1
    /\ pc' = IF i = 0 THEN "error" ELSE "backrow"
    /\ UNCHANGED <<solver, A, b, before, n, U, j, error, outcome>>
    /\ UNCHANGED harnessVars
    /\ UNCHANGED parVars

\* lines 351-357
GaussError ==
    /\ solver = "gauss" /\ pc = "error"
    /\ error' = MaxError(n, A, b, x, 0, Num(0))
    /\ pc' = "done"
    /\ outcome' = "returned"
    /\ UNCHANGED <<solver, A, b, before, n, U, x, i, j, divByZero>>
    /\ UNCHANGED harnessVars
    /\ UNCHANGED parVars

----------------------------------------------------------------------------
(***************************************************************************)
(* gaussSimple (the notebook's Method 0). The elimination itself is left   *)
(* to the reader ("insert your code here"): the function as it stands      *)
(* checks its inputs, copies them, and checks the residual of the copy.    *)
(***************************************************************************)

\* 1e-5
Tolerance == Fin(0, 1, 100000)

\* line 68: sum(A[i,j]*x[j] for j in N), the terms from..n-1 still to add
RECURSIVE PySum(_, _, _, _, _, _)
PySum(m, AA, xx, ii, from, acc) ==
    IF from >= m THEN acc
    ELSE PySum(m, AA, xx, ii, from + 1, FAdd(acc, FMul(AA[<<ii, from>>], xx[from])))

\* the row residual with abs() left out
RowResidualSigned(m, AA, bb, xx, ii) == FSub(PySum(m, AA, xx, ii, 0, Num(0)), bb[ii])

\* line 68: abs(sum(...) - b[i])
RowResidual(m, AA, bb, xx, ii) == FAbs(FSub(PySum(m, AA, xx, ii, 0, Num(0)), bb[ii]))

\* line 68: max(... for i in N) over the rows from..n-1, acc the largest so far
RECURSIVE PyMax(_, _, _, _, _, _)
PyMax(m, AA, bb, xx, from, acc) ==
    IF from >= m THEN acc
    ELSE LET r == RowResidual(m, AA, bb, xx, from)
         IN  PyMax(m, AA, bb, xx, from + 1, IF FGt(r, acc) THEN r ELSE acc)

\* the density check over the diagonal only: all( (i,i) in A for i in N )
IsDenseDiagonal(m, AA) == \A r \in Idx(m) : <<r, r>> \in DOMAIN AA

\* line 56: all( (i,j) in A for i in N for j in N )
IsDense(m, AA) == \A key \in Keys(m) : key \in DOMAIN AA

\* the size check as len(A) >= n*n
SimpleSizeAtLeast ==
    /\ solver = "gaussSimple" /\ pc = "size"
    /\ n' = Cardinality(DOMAIN b)
    /\ IF Cardinality(DOMAIN A) >= n' * n'
       THEN pc' = "dense" /\ outcome' = outcome
       ELSE pc' = "raised" /\ outcome' = "AssertionError: Matrix A has wrong size"
    /\ UNCHANGED <<solver, A, b, before, U, x, i, j, error, divByZero>>
    /\ UNCHANGED harnessVars
    /\ UNCHANGED parVars

\* lines 53-55: n = len(b) and the size check
SimpleSize ==
    /\ solver = "gaussSimple" /\ pc = "size"
    /\ n' = Cardinality(DOMAIN b)
    /\ IF Cardinality(DOMAIN A) = n' * n'
       THEN pc' = "dense" /\ outcome' = outcome
       ELSE pc' = "raised" /\ outcome' = "AssertionError: Matrix A has wrong size"
    /\ UNCHANGED <<solver, A, b, before, U, x, i, j, error, divByZero>>
    /\ UNCHANGED harnessVars
    /\ UNCHANGED parVars

\* line 56: the density check
SimpleDense ==
    /\ solver = "gaussSimple" /\ pc = "dense"
    /\ IF IsDense(n, A)
       THEN pc' = "copy" /\ outcome' = outcome
       ELSE pc' = "raised" /\ outcome' = "AssertionError: Cannot handle sparse matrix A"
    /\ UNCHANGED <<solver, A, b, before, n, U, x, i, j, error, divByZero>>
    /\ UNCHANGED harnessVars
    /\ UNCHANGED parVars

\* lines 57-58: U = dict(A.items()); x = b[:]
SimpleCopy ==
    /\ solver = "gaussSimple" /\ pc = "copy"
    /\ U' = A
    /\ x' = b
    /\ pc' = "residual"
    /\ UNCHANGED <<solver, A, b, before, n, i, j, error, outcome, divByZero>>
    /\ UNCHANGED harnessVars
    /\ UNCHANGED parVars

\* line 68: the residual; max() of an empty sequence raises ValueError
SimpleResidual ==
    /\ solver = "gaussSimple" /\ pc = "residual"
    /\ IF n = 0
       THEN /\ pc' = "raised"
            /\ outcome' = "ValueError: max() arg is an empty sequence"
            /\ error' = error
       ELSE /\ error' = PyMax(n, A, b, x, 1, RowResidual(n, A, b, x, 0))
            /\ pc' = "assert"
            /\ outcome' = outcome
    /\ UNCHANGED <<solver, A, b, before, n, U, x, i, j, divByZero>>
    /\ UNCHANGED harnessVars
    /\ UNCHANGED parVars

\* line 69: assert (error < 1e-5)
SimpleAssert ==
    /\ solver = "gaussSimple" /\ pc = "assert"
    /\ IF FLt(error, Tolerance)
       THEN pc' = "return" /\ outcome' = outcome
       ELSE pc' = "raised" /\ outcome' = "AssertionError: Incorrect solution"
    /\ UNCHANGED <<solver, A, b, before, n, U, x, i, j, error, divByZero>>
    /\ UNCHANGED harnessVars
    /\ UNCHANGED parVars

\* line 70: return x
SimpleReturn ==
    /\ solver = "gaussSimple" /\ pc = "return"
    /\ pc' = "done"
    /\ outcome' = "returned"
    /\ UNCHANGED <<solver, A, b, before, n, U, x, i, j, error, divByZero>>
    /\ UNCHANGED harnessVars
    /\ UNCHANGED parVars

----------------------------------------------------------------------------
(***************************************************************************)
(* The hint of Method 0: the pseudo-code of "a very basic Gaussian         *)
(* elimination algorithm", run statement by statement as it is written.    *)
(* U is the copy of A (no right-hand side column), x the copy of b.        *)
(***************************************************************************)

\* U := A, x := b
HintCopy(m, AA, bb) ==
    [U |-> [r \in Idx(m) |-> [c \in Idx(m) |-> AA[<<r, c>>]]], x |-> bb]

\* Divide row i of U by U_ii
HintDivideRow(m, st, ii) ==
    [st EXCEPT !.U[ii] = [c \in Idx(m) |-> FDiv(st.U[ii][c], st.U[ii][ii])]]

\* subtract U_ki times row i from row k; then x_k := x_k - U_ki * x_i, which
\* reads U_ki as the subtraction left it
HintSubtractRow(m, st, ii, kk) ==
    LET U1 == [st.U EXCEPT ![kk] =
                  [c \in Idx(m) |-> FSub(st.U[kk][c], FMul(st.U[kk][ii], st.U[ii][c]))]]
    IN  [U |-> U1, x |-> [st.x EXCEPT ![kk] = FSub(st.x[kk], FMul(U1[kk][ii], st.x[ii]))]]

\* for k = i+1,...,n, the rows from kk on still to do
RECURSIVE HintRows(_, _, _, _)
HintRows(m, st, ii, kk) ==
    IF kk >= m THEN st ELSE HintRows(m, HintSubtractRow(m, st, ii, kk), ii, kk + 1)

\* for i = 1,...,n, the pivot rows from ii on still to do
RECURSIVE HintForward(_, _, _)
HintForward(m, st, ii) ==
    IF ii >= m THEN st
    ELSE HintForward(m, HintRows(m, HintDivideRow(m, st, ii), ii, ii + 1), ii + 1)

\* for i = n,n-1,...,1: x_i := (x_i - sum( U_ik * x_k for k=i+1,...,n) ) / U_ii
RECURSIVE HintBack(_, _, _)
HintBack(m, st, ii) ==
    IF ii < 0 THEN st
    ELSE HintBack(m,
            [st EXCEPT !.x[ii] =
                FDiv(BackSum(m, st.U, st.x, ii, ii + 1, st.x[ii]), st.U[ii][ii])],
            ii - 1)

\* OUTPUT: x
Hint(m, AA, bb) == HintBack(m, HintForward(m, HintCopy(m, AA, bb), 0), m - 1).x

----------------------------------------------------------------------------
(***************************************************************************)
(* The calls the model makes: the inputs.                                  *)
(***************************************************************************)

\* the entries a matrix or vector of dimension m is filled from
Entries(m) == IF m <= 2 THEN {-1, 0, 1, 2} ELSE {0, 1}
Vals(m) == {Num(z) : z \in Entries(m)}

\* up to dimension 3 every cell is free; above, only the three central diagonals
FreeKeys(m) == IF m <= 3 THEN Keys(m) ELSE {key \in Keys(m) : key[1] - key[2] \in -1 .. 1}

Matrices(m) ==
    LET free == FreeKeys(m)
        all == Keys(m)
    IN  {[key \in all |-> IF key \in free THEN f[key] ELSE Num(0)] :
            f \in [free -> Vals(m)]}
Vectors(m) == [Idx(m) -> Vals(m)]

Identity(m) == [key \in Keys(m) |-> IF key[1] = key[2] THEN Num(1) ELSE Num(0)]

\* the worked 3 x 3 system: A = [[2,1,1],[1,3,2],[1,0,0]], b = [4,5,6]
ScenarioA ==
    LET rows == <<<<2, 1, 1>>, <<1, 3, 2>>, <<1, 0, 0>>>>
    IN  [key \in Keys(3) |-> Num(rows[key[1] + 1][key[2] + 1])]
ScenarioB == [r \in Idx(3) |-> Num(<<4, 5, 6>>[r + 1])]
ScenarioX == [r \in Idx(3) |-> Num(<<6, 15, -23>>[r + 1])]

\* a 2 x 2 system whose multiplier 15/11 is not a double
RoundingA ==
    LET rows == <<<<11, 1>>, <<15, 1>>>>
    IN  [key \in Keys(2) |-> Num(rows[key[1] + 1][key[2] + 1])]
RoundingB == [r \in Idx(2) |-> Num(1)]

\* dicts that are not a dense len(b) x len(b) matrix: a cell missing, a cell
\* too many, or the right number of cells with one of them out of range
Restrict(f, S) == [key \in S |-> f[key]]
Sparse(m) ==
    LET full == Identity(m + 1)
        extra == Keys(m + 1) \ Keys(m)
    IN  {Restrict(full, Keys(m) \ {gone}) : gone \in Keys(m)}
        \cup {Restrict(full, Keys(m) \cup {e}) : e \in extra}
        \cup {Restrict(full, (Keys(m) \ {gone}) \cup {e}) : gone \in Keys(m), e \in extra}

Ones(m) == [r \in Idx(m) |-> Num(1)]
Solvers == {"gauss", "gaussSimple"}

\* calls of gaussSimple with a dict that does not fit the vector, or with n = 0
MisfitCalls ==
    UNION {{[A |-> AA, b |-> Ones(m)] : AA \in Sparse(m)} : m \in 0 .. MaxN}
    \cup {[A |-> Identity(m), b |-> Ones(mb)] : m \in 0 .. MaxN, mb \in 0 .. MaxN}

\* no exception has left the sweep
NoFailure == [raised |-> FALSE, by |-> "none", notes |-> << >>]

\* no sweep is running
HarnessIdle ==
    /\ harness = "none" /\ maxSize = 0 /\ sizeN = 0 /\ prev = <<0, 1>>
    /\ t = << >> /\ rep = 0 /\ gcEnabled = TRUE /\ gcold = TRUE
    /\ rng = [seed |-> 0, pos |-> 0] /\ inst = [n |-> 0, first |-> 0]
    /\ timing = FALSE /\ elapsed = 0 /\ calls = 0
    /\ printed = << >> /\ events = << >> /\ hpc = "idle" /\ hout = "running"
    /\ failure = NoFailure

\* no pass of the parallel row reduction is under way
ParIdle == todo = << >> /\ wrote = << >>

\* the state as solver s is called with AA and bb. The output buffer of gauss
\* is the caller's; gauss writes every cell before it reads it, the model
\* starts it filled with zeros
Call(s, AA, bb) ==
    /\ solver = s
    /\ A = AA
    /\ b = bb
    /\ before = [A |-> AA, b |-> bb]
    /\ n = IF s = "gaussSimple" THEN 0 ELSE Cardinality(DOMAIN bb)
    /\ U = << >>
    /\ x = IF s = "gaussSimple" THEN << >> ELSE [r \in DOMAIN bb |-> Num(0)]
    /\ i = 0
    /\ j = 0
    /\ error = Num(0)
    /\ pc = IF s = "gaussSimple" THEN "size" ELSE "copy"
    /\ outcome = "running"
    /\ divByZero = FALSE
    /\ HarnessIdle
    /\ ParIdle

\* a call of either solver with a dense m x m matrix and a vector of length
\* m, or with the worked 3 x 3 system, or with the 2 x 2 system above, or of
\* gaussSimple with a misfit
Init ==
    \/ \E m \in 1 .. MaxN : \E s \in Solvers, AA \in Matrices(m), bb \in Vectors(m) :
            Call(s, AA, bb)
    \/ \E s \in Solvers : Call(s, ScenarioA, ScenarioB)
    \/ \E s \in Solvers : Call(s, RoundingA, RoundingB)
    \/ \E c \in MisfitCalls : Call("gaussSimple", c.A, c.b)

Next ==
    \/ GaussCopy
    \/ GaussReduce
    \/ GaussBackInit
    \/ GaussBackRow
    \/ GaussError
    \/ SimpleSize
    \/ SimpleDense
    \/ SimpleCopy
    \/ SimpleResidual
    \/ SimpleAssert
    \/ SimpleReturn

Spec == Init /\ [][Next]_vars

----------------------------------------------------------------------------
(***************************************************************************)
(* The parallel solver (Method 5). parSolve is left to the reader; what    *)
(* is modelled is the approach the notebook sets out for it: the row       *)
(* reduction of gauss with the loop over the rows below the pivot row as   *)
(* a prange loop, whose iterations are shared out among the threads and    *)
(* which ends when all threads have finished. A thread reduces a row in    *)
(* one step; the steps of different threads interleave in any order.       *)
(***************************************************************************)
Workers == 1 .. NumThreads

\* the ways the rows after pivot row ii can be shared out among the threads
Shares(m, ii) ==
    {[w \in Workers |-> {k \in (ii + 1) .. (m - 1) : f[k] = w}] :
        f \in [(ii + 1) .. (m - 1) -> Workers]}

\* the back-substitution, rows ii down to 0
RECURSIVE BackFrom(_, _, _, _)
BackFrom(m, UU, xx, ii) ==
    IF ii < 0 THEN xx ELSE BackFrom(m, UU, BackRow(m, UU, xx, ii), ii - 1)

\* the augmented copy, and the first pass is handed to the threads
ParCopy ==
    /\ solver = "parSolve" /\ pc = "copy"
    /\ U' = AugmentedCopy(n, A, b)
    /\ i' = 0
    /\ todo' \in Shares(n, 0)
    /\ wrote' = [w \in Workers |-> {}]
    /\ pc' = "pass"
    /\ UNCHANGED <<solver, A, b, before, n, x, j, error, outcome, divByZero>>
    /\ UNCHANGED harnessVars

\* a thread takes one of its rows and reduces it with pivot row i
ParReduce ==
    /\ solver = "parSolve" /\ pc = "pass"
    /\ \E w \in Workers : \E k \in todo[w] :
          /\ U' = ReduceRow(n, U, i, k)
          /\ todo' = [todo EXCEPT ![w] = @ \ {k}]
          /\ wrote' = [wrote EXCEPT ![w] = @ \cup {k} \cup {r \in Idx(n) : U'[r] # U[r]}]
    /\ divByZero' = (divByZero \/ IsZero(U[i][i]))
    /\ UNCHANGED <<solver, A, b, before, n, x, i, j, error, pc, outcome>>
    /\ UNCHANGED harnessVars

\* the end of the prange loop: all threads have finished their rows; the
\* next pass is handed out, or the row reduction is over
ParBarrier ==
    /\ solver = "parSolve" /\ pc = "pass"
    /\ \A w \in Workers : todo[w] = {}
    /\ IF i + 1 < n
       THEN /\ i' = i + 1
            /\ todo' \in Shares(n, i + 1)
            /\ wrote' = [w \in Workers |-> {}]
            /\ pc' = pc
       ELSE /\ pc' = "back"
            /\ UNCHANGED <<i, todo, wrote>>
    /\ UNCHANGED <<solver, A, b, before, n, U, x, j, error, outcome, divByZero>>
    /\ UNCHANGED harnessVars

\* the back-substitution, by one thread, and return x
ParBack ==
    /\ solver = "parSolve" /\ pc = "back"
    /\ x' = BackFrom(n, U, x, n - 1)
    /\ divByZero' = (divByZero \/ \E r \in Idx(n) : IsZero(U[r][r]))
    /\ pc' = "done"
    /\ outcome' = "returned"
    /\ UNCHANGED <<solver, A, b, before, n, U, i, j, error>>
    /\ UNCHANGED harnessVars
    /\ UNCHANGED parVars

\* the right-hand sides tried with the parallel solver
ParVectors(m) == {Ones(m), [r \in Idx(m) |-> Num(r)]}

\* a call parSolve(A, b) with a dense m x m matrix
InitPar ==
    \E m \in 1 .. MaxN : \E AA \in Matrices(m), bb \in ParVectors(m) :
        Call("parSolve", AA, bb)

NextPar ==
    \/ ParCopy
    \/ ParReduce
    \/ ParBarrier
    \/ ParBack

SpecPar == InitPar /\ [][NextPar]_vars

----------------------------------------------------------------------------
(***************************************************************************)
(* gausstest.speed and parspeed. The two sweeps differ in the timer they   *)
(* hand to timeit and in what they print; their control flow is the same.  *)
(* timeit.repeat(stmt, setup, timer, repeat, number, globals) is the       *)
(* standard library's: it calls Timer.timeit(number) `repeat` times, and   *)
(* each timeit() saves gc.isenabled(), disables gc, runs the setup         *)
(* statement, reads the timer, runs stmt `number` times, reads the timer   *)
(* again, and restores gc in a finally clause.                             *)
(* The solver under test (`method`) is a parameter of the sweep: a call    *)
(* of it takes some ticks and returns, or raises.                          *)
(***************************************************************************)

RECURSIVE SumSeq(_)
SumSeq(q) == IF q = << >> THEN 0 ELSE Head(q) + SumSeq(Tail(q))

\* a fraction in lowest terms, <<0, 1>> for zero
Frac(num, den) ==
    IF num = 0 THEN <<0, 1>> ELSE LET g == Gcd(num, den) IN <<num \div g, den \div g>>

\* statistics.mean
Mean(q) == Frac(SumSeq(q), Len(q))

\* mean(t)/prev
Ratio(m, p) == Frac(m[1] * p[2], m[2] * p[1])

\* randProb(n): n*n draws for A, row by row, then n draws for b
RandProb(nn, r) ==
    [inst |-> [n |-> nn, first |-> r.pos],
     rng |-> [r EXCEPT !.pos = r.pos + nn * nn + nn]]

\* random(): the k-th draw after seed(sd)
Draw(sd, k) == <<sd, k>>
InstA(sd, in, row, col) == Draw(sd, in.first + row * in.n + col)
InstB(sd, in, row) == Draw(sd, in.first + in.n * in.n + row)

\* what one call of the solver can add to the timer, in clock ticks:
\* process_time may not advance over a short call, perf_counter does
Durations(h) == IF h = "speed" THEN {0, 1} ELSE {1, 2}

Event(kind) == [e |-> kind, n |-> sizeN, first |-> inst.first, timed |-> timing]

\* the start of the sweep with seed(123456) left out
SpeedStartNoSeed ==
    /\ hpc = "start"
    /\ prev' = <<0, 1>>
    /\ sizeN' = BaseSize
    /\ gcEnabled' = FALSE
    /\ events' = Append(events, Event("disable"))
    /\ hpc' = "while"
    /\ UNCHANGED <<failure, harness, maxSize, t, rep, gcold, rng, inst, timing, elapsed,
                   calls, printed, hout>>
    /\ UNCHANGED solverVars
    /\ UNCHANGED parVars

\* the start of the sweep with gc.disable() left out
SpeedStartNoDisable ==
    /\ hpc = "start"
    /\ rng' = [seed |-> SeedValue, pos |-> 0]
    /\ prev' = <<0, 1>>
    /\ sizeN' = BaseSize
    /\ hpc' = "while"
    /\ UNCHANGED <<failure, harness, maxSize, t, rep, gcEnabled, gcold, inst, timing, elapsed,
                   calls, printed, events, hout>>
    /\ UNCHANGED solverVars
    /\ UNCHANGED parVars

\* lines 140-143 (618-620): seed(123456); prev,n = 0.0, 50; gc.disable()
SpeedStart ==
    /\ hpc = "start"
    /\ rng' = [seed |-> SeedValue, pos |-> 0]
    /\ prev' = <<0, 1>>
    /\ sizeN' = BaseSize
    /\ gcEnabled' = FALSE
    /\ events' = Append(events, Event("disable"))
    /\ hpc' = "while"
    /\ UNCHANGED <<failure, harness, maxSize, t, rep, gcold, inst, timing, elapsed, calls,
                   printed, hout>>
    /\ UNCHANGED solverVars
    /\ UNCHANGED parVars

\* the loop test as n < maxSize
SpeedWhileStrict ==
    /\ hpc = "while"
    /\ hpc' = IF sizeN < maxSize THEN "collect" ELSE "enable"
    /\ UNCHANGED <<failure, harness, maxSize, sizeN, prev, t, rep, gcEnabled, gcold, rng, inst,
                   timing, elapsed, calls, printed, events, hout>>
    /\ UNCHANGED solverVars
    /\ UNCHANGED parVars

\* line 144 (621): while n <= maxSize
SpeedWhile ==
    /\ hpc = "while"
    /\ hpc' = IF sizeN <= maxSize THEN "collect" ELSE "enable"
    /\ UNCHANGED <<failure, harness, maxSize, sizeN, prev, t, rep, gcEnabled, gcold, rng, inst,
                   timing, elapsed, calls, printed, events, hout>>
    /\ UNCHANGED solverVars
    /\ UNCHANGED parVars

\* line 145 (622): gc.collect(); then timeit.repeat starts with an empty list
SpeedCollect ==
    /\ hpc = "collect"
    /\ events' = Append(events, Event("collect"))
    /\ t' = << >>
    /\ rep' = 0
    /\ hpc' = "repeat"
    /\ UNCHANGED <<failure, harness, maxSize, sizeN, prev, gcEnabled, gcold, rng, inst,
                   timing, elapsed, calls, printed, hout>>
    /\ UNCHANGED solverVars
    /\ UNCHANGED parVars

\* timeit.repeat: for i in range(repeat)
TimeitRepeat ==
    /\ hpc = "repeat"
    /\ hpc' = IF rep < Repeats THEN "timeit" ELSE "print"
    /\ UNCHANGED <<failure, harness, maxSize, sizeN, prev, t, rep, gcEnabled, gcold, rng, inst,
                   timing, elapsed, calls, printed, events, hout>>
    /\ UNCHANGED solverVars
    /\ UNCHANGED parVars

\* Timer.timeit: gcold = gc.isenabled(); gc.disable()
TimeitGcOff ==
    /\ hpc = "timeit"
    /\ gcold' = gcEnabled
    /\ gcEnabled' = FALSE
    /\ hpc' = "setup"
    /\ UNCHANGED <<failure, harness, maxSize, sizeN, prev, t, rep, rng, inst,
                   timing, elapsed, calls, printed, events, hout>>
    /\ UNCHANGED solverVars
    /\ UNCHANGED parVars

\* the setup statement run for the first timeit() of a size only
TimeitSetupOnce ==
    /\ hpc = "setup"
    /\ inst' = IF rep = 0 THEN RandProb(sizeN, rng).inst ELSE inst
    /\ rng' = IF rep = 0 THEN RandProb(sizeN, rng).rng ELSE rng
    /\ events' = IF rep = 0
                 THEN Append(events, [Event("setup") EXCEPT !.first = rng.pos])
                 ELSE events
    /\ hpc' = "t0"
    /\ UNCHANGED <<failure, harness, maxSize, sizeN, prev, t, rep, gcEnabled, gcold,
                   timing, elapsed, calls, printed, hout>>
    /\ UNCHANGED solverVars
    /\ UNCHANGED parVars

\* inner: the setup statement, A,b=randP(n)
TimeitSetup ==
    /\ hpc = "setup"
    /\ inst' = RandProb(sizeN, rng).inst
    /\ rng' = RandProb(sizeN, rng).rng
    /\ events' = Append(events, [Event("setup") EXCEPT !.first = rng.pos])
    /\ hpc' = "t0"
    /\ UNCHANGED <<failure, harness, maxSize, sizeN, prev, t, rep, gcEnabled, gcold,
                   timing, elapsed, calls, printed, hout>>
    /\ UNCHANGED solverVars
    /\ UNCHANGED parVars

\* inner: _t0 = _timer()
TimeitT0 ==
    /\ hpc = "t0"
    /\ timing' = TRUE
    /\ elapsed' = 0
    /\ calls' = 0
    /\ events' = Append(events, Event("t0"))
    /\ hpc' = "stmt"
    /\ UNCHANGED <<failure, harness, maxSize, sizeN, prev, t, rep, gcEnabled, gcold, rng, inst,
                   printed, hout>>
    /\ UNCHANGED solverVars
    /\ UNCHANGED parVars

\* inner: for _i in _it: method(A,b), a call that returns
TimeitStmt ==
    /\ hpc = "stmt" /\ calls < Number
    /\ \E d \in Durations(harness) : elapsed' = elapsed + d
    /\ calls' = calls + 1
    /\ events' = Append(events, Event("call"))
    /\ UNCHANGED <<failure, harness, maxSize, sizeN, prev, t, rep, gcEnabled, gcold, rng, inst,
                   timing, printed, hpc, hout>>
    /\ UNCHANGED solverVars
    /\ UNCHANGED parVars

\* inner: method(A,b) raises; the finally clause of Timer.timeit restores gc
\* and the exception leaves timeit.repeat and the sweep, which catch nothing
TimeitStmtRaises ==
    /\ hpc = "stmt" /\ calls < Number
    /\ calls' = calls + 1
    /\ events' = Append(events, Event("call"))
    /\ timing' = FALSE
    /\ gcEnabled' = (gcEnabled \/ gcold)
    /\ hpc' = "raised"
    /\ hout' = "raised"
    /\ failure' = [raised |-> TRUE, by |-> "method", notes |-> << >>]
    /\ UNCHANGED <<harness, maxSize, sizeN, prev, t, rep, gcold, rng, inst,
                   elapsed, printed>>
    /\ UNCHANGED solverVars
    /\ UNCHANGED parVars

\* inner: _t1 = _timer(); return _t1 - _t0; finally: if gcold: gc.enable();
\* timeit.repeat appends the result
TimeitT1 ==
    /\ hpc = "stmt" /\ calls = Number
    /\ timing' = FALSE
    /\ gcEnabled' = (gcEnabled \/ gcold)
    /\ t' = Append(t, elapsed)
    /\ rep' = rep + 1
    /\ events' = Append(events, Event("t1"))
    /\ hpc' = "repeat"
    /\ UNCHANGED <<failure, harness, maxSize, sizeN, prev, gcold, rng, inst,
                   elapsed, calls, printed, hout>>
    /\ UNCHANGED solverVars
    /\ UNCHANGED parVars

\* the end of a size with prev = mean(t) left out
SpeedPrintKeepsPrev ==
    /\ hpc = "print"
    /\ printed' = Append(printed,
            [n |-> sizeN, mean |-> Mean(t),
             ratio |-> IF prev[1] > 0 THEN Ratio(Mean(t), prev) ELSE << >>])
    /\ sizeN' = sizeN * 2
    /\ hpc' = "while"
    /\ UNCHANGED <<failure, harness, maxSize, prev, t, rep, gcEnabled, gcold, rng, inst,
                   timing, elapsed, calls, events, hout>>
    /\ UNCHANGED solverVars
    /\ UNCHANGED parVars

\* lines 148-150 (629-636): print the line; prev = mean(t); n *= 2
SpeedPrint ==
    /\ hpc = "print"
    /\ printed' = Append(printed,
            [n |-> sizeN, mean |-> Mean(t),
             ratio |-> IF prev[1] > 0 THEN Ratio(Mean(t), prev) ELSE << >>])
    /\ prev' = Mean(t)
    /\ sizeN' = sizeN * 2
    /\ hpc' = "while"
    /\ UNCHANGED <<failure, harness, maxSize, t, rep, gcEnabled, gcold, rng, inst,
                   timing, elapsed, calls, events, hout>>
    /\ UNCHANGED solverVars
    /\ UNCHANGED parVars

\* line 151 (637): gc.enable(), and the sweep returns
SpeedEnable ==
    /\ hpc = "enable"
    /\ gcEnabled' = TRUE
    /\ events' = Append(events, Event("enable"))
    /\ hpc' = "done"
    /\ hout' = "returned"
    /\ UNCHANGED <<failure, harness, maxSize, sizeN, prev, t, rep, gcold, rng, inst,
                   timing, elapsed, calls, printed>>
    /\ UNCHANGED solverVars
    /\ UNCHANGED parVars

\* no solver call of its own is modelled while a sweep runs
SolverIdle ==
    /\ solver = "none" /\ A = << >> /\ b = << >> /\ before = [A |-> << >>, b |-> << >>]
    /\ n = 0 /\ U = << >> /\ x = << >> /\ i = 0 /\ j = 0 /\ error = Num(0)
    /\ pc = "idle" /\ outcome = "running" /\ divByZero = FALSE

\* the values of maxSize tried: the multiples of a fifth of the first size
MaxSizes == {k * (BaseSize \div 5) : k \in 0 .. MaxSizeSteps}

\* the random module as the caller may have left it: freshly imported, or
\* seeded by an earlier sweep or by the caller and drawn from since
PriorRng ==
    {[seed |-> 0, pos |-> 0], [seed |-> SeedValue, pos |-> 7], [seed |-> 1, pos |-> 2]}

\* a call speed(method, maxSize) or parspeed(method, maxSize), gc enabled as
\* the interpreter starts it
InitSpeed ==
    /\ SolverIdle
    /\ ParIdle
    /\ harness \in {"speed", "parspeed"}
    /\ maxSize \in MaxSizes
    /\ sizeN = 0 /\ prev = <<0, 1>> /\ t = << >> /\ rep = 0
    /\ gcEnabled = TRUE /\ gcold = TRUE
    /\ rng \in PriorRng /\ inst = [n |-> 0, first |-> 0]
    /\ timing = FALSE /\ elapsed = 0 /\ calls = 0
    /\ printed = << >> /\ events = << >> /\ hpc = "start" /\ hout = "running"
    /\ failure = NoFailure

NextSpeed ==
    \/ SpeedStart
    \/ SpeedWhile
    \/ SpeedCollect
    \/ TimeitRepeat
    \/ TimeitGcOff
    \/ TimeitSetup
    \/ TimeitT0
    \/ TimeitStmt
    \/ TimeitStmtRaises
    \/ TimeitT1
    \/ SpeedPrint
    \/ SpeedEnable

SpecSpeed == InitSpeed /\ [][NextSpeed]_vars

----------------------------------------------------------------------------
(***************************************************************************)
(* Properties of the solvers.                                              *)
(***************************************************************************)

Size(v) == Cardinality(DOMAIN v)   \* len(v)
Exited == pc \in {"done", "raised"}

\* sum_j AA[r,j] * xx[j] over the first m columns
RECURSIVE Dot(_, _, _, _)
Dot(AA, xx, r, m) ==
    IF m = 0 THEN Num(0)
    ELSE FAdd(Dot(AA, xx, r, m - 1), FMul(AA[<<r, m - 1>>], xx[m - 1]))

\* max_i |sum_j AA[i,j]*xx[j] - bb[i]| < tol, row by row
ResidualBelow(AA, bb, xx, tol) ==
    \A r \in DOMAIN bb : FLt(FAbs(FSub(Dot(AA, xx, r, Size(bb)), bb[r])), tol)

\* C1: on every path, also the failing ones, the caller's A and b stay equal
\* to what they were before the call; the solvers write to U and x only.
C1_InputsUnchanged == A = before.A /\ b = before.b

\* a call of gauss that returned after it rewrote rows of U and filled x
C1_Witness ==
    /\ solver = "gauss" /\ pc = "done" /\ n = 3
    /\ U # AugmentedCopy(n, A, b)
    /\ \E r \in Idx(n) : ~IsZero(x[r])

\* C2: when gaussSimple returns x, the residual of x against the original A
\* and b is below 1e-5; when the residual of its x is not, it raises the
\* assertion error and returns nothing.
C2_ReturnedMeetsTolerance ==
    solver = "gaussSimple" =>
        /\ outcome = "returned" => ResidualBelow(before.A, before.b, x, Tolerance)
        /\ (pc \in {"return", "done"}) => ResidualBelow(before.A, before.b, x, Tolerance)
        /\ (pc = "raised" /\ x # << >> /\ n > 0) =>
              /\ ~ResidualBelow(before.A, before.b, x, Tolerance)
              /\ outcome = "AssertionError: Incorrect solution"

\* gaussSimple returned for a matrix other than the identity and a non-zero b
C2_Witness ==
    /\ solver = "gaussSimple" /\ outcome = "returned" /\ n = 2
    /\ A # Identity(n)
    /\ \A r \in Idx(n) : ~IsZero(b[r])

\* gauss is about to use U[i][i] as the divisor of a row reduction, and it is zero
ZeroPivotReached == solver = "gauss" /\ pc = "reduce" /\ IsZero(U[i][i])

\* C3: when elimination without row swaps reaches a zero pivot, the solver
\* fails there with a singular-matrix error: it does not divide by the pivot,
\* does no further elimination step and returns no vector.
C3_ZeroPivotFails ==
    [][ZeroPivotReached =>
          /\ outcome' = "SingularMatrixError"
          /\ pc' = "raised"
          /\ U' = U
          /\ ~divByZero']_vars

\* C4: when A does not have len(b)^2 entries, gaussSimple fails with the size
\* error before it copies, eliminates or computes a residual, and returns
\* nothing.
C4_WrongSizeFailsFirst ==
    (solver = "gaussSimple" /\ Size(before.A) # Size(before.b) * Size(before.b)) =>
        /\ pc \in {"size", "raised"}
        /\ pc = "raised" => outcome = "AssertionError: Matrix A has wrong size"
        /\ pc = "size" => outcome = "running"
        /\ U = << >> /\ x = << >> /\ error = Num(0)

\* the size check has rejected a dict with more cells than len(b)^2
C4_Witness ==
    /\ solver = "gaussSimple" /\ pc = "raised"
    /\ Size(A) > Size(b) * Size(b)
    /\ Size(b) > 0

\* C5: for the n x n identity and any b of length n > 0, the solver returns
\* x equal to b, element by element.
C5_IdentityReturnsB ==
    (Size(before.b) > 0 /\ before.A = Identity(Size(before.b))) =>
        /\ pc # "raised"
        /\ pc = "done" =>
              /\ outcome = "returned"
              /\ DOMAIN x = DOMAIN before.b
              /\ \A r \in DOMAIN x : FEq(x[r], before.b[r])

\* gauss returned for the 3 x 3 identity and a b that is not constant
C5_Witness ==
    /\ solver = "gauss" /\ pc = "done" /\ n = 3
    /\ A = Identity(3)
    /\ b[0] # b[1]

\* C6: for A = [[2,1,1],[1,3,2],[1,0,0]] and b = [4,5,6] the solver returns
\* x = [6, 15, -23] and divides by no zero pivot.
C6_ScenarioSolved ==
    (before.A = ScenarioA /\ before.b = ScenarioB /\ Exited) =>
        /\ outcome = "returned"
        /\ x = ScenarioX
        /\ ~divByZero

\* what gauss alone does on that system: it returns [6, 15, -23], error 0
C6_GaussScenarioSolved ==
    (solver = "gauss" /\ before.A = ScenarioA /\ before.b = ScenarioB /\ Exited) =>
        /\ outcome = "returned"
        /\ x = ScenarioX
        /\ IsZero(error)
        /\ ~divByZero

----------------------------------------------------------------------------
(***************************************************************************)
(* Properties of the benchmark sweep.                                      *)
(***************************************************************************)

\* the sizes 50 * 2^k that do not exceed mx, in increasing order
SeriesUpTo(mx) ==
    LET ks == {k \in 0 .. (mx \div BaseSize) : BaseSize * Pow2(k) <= mx}
    IN  [k \in 1 .. Cardinality(ks) |-> BaseSize * Pow2(k - 1)]

IsPrefix(p, q) == Len(p) <= Len(q) /\ \A k \in 1 .. Len(p) : p[k] = q[k]

\* the indices of the events of kind e, and the sizes they carry, in order
EventsOf(kind) == {k \in DOMAIN events : events[k].e = kind}
IsCollect(ev) == ev.e = "collect"
SizesOf(evs) == [k \in DOMAIN evs |-> evs[k].n]
StartedSizes == SizesOf(SelectSeq(events, IsCollect))
PrintedSizes == [k \in DOMAIN printed |-> printed[k].n]

\* C7: the sweep works on exactly the sizes 50 * 2^k <= maxSize, in
\* increasing order and each once: what it has started is at every moment a
\* prefix of that series, a sweep that returns has started and printed all
\* of it, and with maxSize < 50 it starts nothing.
C7_SizesOfTheSweep ==
    hpc # "idle" =>
        /\ IsPrefix(StartedSizes, SeriesUpTo(maxSize))
        /\ IsPrefix(PrintedSizes, StartedSizes)
        /\ hout = "returned" =>
              /\ StartedSizes = SeriesUpTo(maxSize)
              /\ PrintedSizes = SeriesUpTo(maxSize)
        /\ maxSize < BaseSize => StartedSizes = << >>

\* a sweep with maxSize = 200 returned after the sizes 50, 100 and 200
C7_Witness ==
    /\ hout = "returned" /\ maxSize = 200
    /\ PrintedSizes = <<50, 100, 200>>

\* C8 as stated: each size has one instance, and every trial of the size
\* calls the solver on it.
C8_OneInstancePerSize ==
    /\ \A k1, k2 \in EventsOf("setup") : events[k1].n = events[k2].n => k1 = k2
    /\ \A k1, k2 \in EventsOf("call") :
          events[k1].n = events[k2].n => events[k1].first = events[k2].first

\* C8 as the code has it: the setup statement runs in every trial, so each
\* trial draws a fresh instance and calls the solver on the instance drawn
\* just before it; no two trials share one, and a size that is printed has
\* had Repeats instances.
C8_OneInstancePerTrial ==
    /\ \A k \in EventsOf("call") :
          /\ k >= 3
          /\ events[k - 2].e = "setup"
          /\ events[k - 2].n = events[k].n
          /\ events[k - 2].first = events[k].first
    /\ \A k1, k2 \in EventsOf("call") : events[k1].first = events[k2].first => k1 = k2
    /\ \A p \in DOMAIN printed :
          Cardinality({k \in EventsOf("setup") : events[k].n = printed[p].n}) = Repeats

\* two trials of size 50 have run, each on its own instance
C8_Witness ==
    \E k1, k2 \in EventsOf("call") :
        /\ k1 < k2
        /\ events[k1].n = events[k2].n
        /\ events[k1].first # events[k2].first

\* the trials of a size: its timer stops
TrialsOf(nn) == {k \in EventsOf("t1") : events[k].n = nn}

\* C9: a size that is printed has exactly Repeats durations; each trial is
\* the timer read, one call of the solver, the timer read; the setup
\* statement runs before the first timer read, never between the two.
C9_TrialsAndTimedRegion ==
    /\ Len(t) = rep /\ rep <= Repeats
    /\ hpc = "print" => Len(t) = Repeats
    /\ \A p \in DOMAIN printed : Cardinality(TrialsOf(printed[p].n)) = Repeats
    /\ \A k \in EventsOf("t1") :
          /\ events[k - 1].e = "call"
          /\ events[k - 2].e = "t0"
    /\ \A k \in EventsOf("call") : events[k].timed /\ events[k - 1].e = "t0"
    /\ \A k \in EventsOf("t0") : events[k - 1].e = "setup"
    /\ \A k \in EventsOf("setup") : ~events[k].timed
    /\ hpc = "setup" => ~timing

\* the five trials of size 100 are done
C9_Witness ==
    /\ hpc = "print" /\ sizeN = 100
    /\ Len(t) = Repeats
    /\ Cardinality(TrialsOf(100)) = Repeats

\* C10: every solver call is preceded by a gc.collect of its own: one
\* before the first call, and one between any two consecutive calls.
C10_CollectBeforeEveryTrial ==
    \A k \in EventsOf("call") :
        \E c \in EventsOf("collect") :
            /\ c < k
            /\ \A k0 \in EventsOf("call") : k0 < k => k0 < c

\* C11: while a sweep that has not failed is between its gc.disable() and
\* its gc.enable(), automatic collection is off: in every state in which a
\* timed solver call is in progress, and between trials and between sizes;
\* when the sweep has returned, collection is on again, switched on by the
\* one gc.enable() that ends the sweep.
C11_GcOffDuringSweep ==
    /\ timing => ~gcEnabled
    /\ hpc \in {"while", "collect", "repeat", "timeit", "setup", "t0", "stmt",
                "print", "enable"} => ~gcEnabled
    /\ hout # "raised" => \A k \in EventsOf("enable") : k = Len(events) /\ hpc = "done"
    /\ hout = "returned" =>
          /\ gcEnabled
          /\ events # << >>
          /\ events[Len(events)].e = "enable"

\* a sweep over two sizes has returned, its ten timed calls made, gc enabled
C11_Witness ==
    /\ hout = "returned" /\ gcEnabled
    /\ Len(printed) = 2
    /\ Cardinality(EventsOf("call")) = 2 * Repeats

\* C12 as stated: the line of a size carries the ratio of its mean to the
\* mean of the size before it, and the ratio is missing from the first line
\* and from no other.
C12_RatioOmittedOnlyFirst ==
    \A p \in DOMAIN printed :
        /\ (printed[p].ratio = << >>) <=> (p = 1)
        /\ p > 1 => printed[p].ratio = Ratio(printed[p].mean, printed[p - 1].mean)

\* C12 as the code has it: the test is prev > 0, so the line of a size
\* carries the ratio exactly when the mean of the size before it is greater
\* than zero; the first line has none, and neither has a line that follows
\* a size whose five durations were all 0.
C12_RatioWhenPrevPositive ==
    \A p \in DOMAIN printed :
        /\ p = 1 => printed[p].ratio = << >>
        /\ (p > 1 /\ printed[p - 1].mean[1] > 0) =>
              printed[p].ratio = Ratio(printed[p].mean, printed[p - 1].mean)
        /\ (p > 1 /\ printed[p - 1].mean[1] = 0) => printed[p].ratio = << >>

\* three lines: size 50 took no measurable time, so the line of size 100
\* has no ratio, and the line of size 200 has one
C12_Witness ==
    /\ Len(printed) = 3
    /\ printed[1].mean = <<0, 1>>
    /\ printed[2].ratio = << >> /\ printed[2].mean[1] > 0
    /\ printed[3].ratio # << >>

\* C13: when the solver fails in a trial, the failure leaves the sweep, no
\* further trial and no further size is run, and the failure the caller
\* receives names the size and the seed of the instance that failed.
C13_FailureNamesSizeAndSeed ==
    hout = "raised" =>
        /\ failure.raised
        /\ events[Len(events)].e = "call"
        /\ \E k \in DOMAIN failure.notes :
              failure.notes[k] = [size |-> inst.n, seed |-> rng.seed]

\* what the sweep does do with a failing solver: the exception of the solver
\* reaches the caller as it was raised, the failing call is the last thing
\* the sweep did, and the size it failed at has no line
C13_FailurePropagates ==
    hout = "raised" =>
        /\ failure = [raised |-> TRUE, by |-> "method", notes |-> << >>]
        /\ hpc = "raised"
        /\ events[Len(events)].e = "call"
        /\ events[Len(events)].n = sizeN
        /\ \A p \in DOMAIN printed : printed[p].n < sizeN

\* the draws a sweep has made before the first trial of size nn: Repeats
\* instances of every smaller size of the series
RECURSIVE DrawsBefore(_)
DrawsBefore(nn) ==
    IF nn <= BaseSize THEN 0
    ELSE LET h == nn \div 2 IN DrawsBefore(h) + Repeats * (h * h + h)

\* the place in the stream of seed 123456 where the instance of trial tr of
\* size nn starts; it depends on nn and tr alone
ExpectedFirst(nn, tr) == DrawsBefore(nn) + (tr - 1) * (nn * nn + nn)

\* the number of the trial of its size that event k belongs to
TrialIndex(kind, k) ==
    Cardinality({k0 \in EventsOf(kind) : k0 <= k /\ events[k0].n = events[k].n})

\* C14: the instance of the t-th trial of size n is the same in every
\* sweep that reaches it, whatever maxSize, whichever of speed and parspeed,
\* however long the solver calls take and whatever the random module did
\* before: it is made of the draws of seed 123456 that start at a place
\* fixed by n and t, and the solver is called on that instance.
C14_InstancesReproducible ==
    /\ hpc \notin {"idle", "start"} => rng.seed = SeedValue
    /\ \A k \in EventsOf("setup") :
          events[k].first = ExpectedFirst(events[k].n, TrialIndex("setup", k))
    /\ \A k \in EventsOf("call") :
          events[k].first = ExpectedFirst(events[k].n, TrialIndex("call", k))
    /\ hpc \in {"t0", "stmt"} =>
          /\ inst.n = sizeN
          /\ inst.first = ExpectedFirst(sizeN, rep + 1)
          /\ InstA(rng.seed, inst, 0, 0) = Draw(SeedValue, ExpectedFirst(sizeN, rep + 1))

\* the solver call of the second trial of size 100 in parspeed(method, 100)
C14_Witness ==
    /\ hpc = "stmt" /\ sizeN = 100 /\ rep = 1 /\ calls = 1
    /\ inst.first = Repeats * (50 * 50 + 50) + (100 * 100 + 100)
    /\ maxSize = 100 /\ harness = "parspeed"

----------------------------------------------------------------------------
(***************************************************************************)
(* Properties of the elimination.                                          *)
(***************************************************************************)

\* C15: when none of the n pivots U[i][i] that gauss divides by (in the row
\* reduction for i < n-1, in the back-substitution for all i) is zero, the x
\* it leaves satisfies sum_j A[i][j]*x[j] = b[i] in every row, exactly, and
\* the maximum error it returns is 0.
C15_GaussSolvesExactly ==
    (solver = "gauss" /\ pc = "done" /\ ~divByZero) =>
        /\ outcome = "returned"
        /\ IsZero(error)
        /\ \A r \in Idx(n) : IsFinite(x[r])
        /\ \A r \in Idx(n) : FEq(Dot(before.A, x, r, n), before.b[r])

\* gauss returned for a 3 x 3 system whose rows it had to reduce and whose
\* solution is not made of integers
C15_Witness ==
    /\ solver = "gauss" /\ pc = "done" /\ n = 3 /\ ~divByZero
    /\ U # AugmentedCopy(n, A, b)
    /\ \E r \in Idx(n) : x[r].d > 1

\* the entries below the diagonal that are zero once the passes for the
\* pivot rows before ii are over and the pass for ii has done the rows
\* before jj: columns c < ii in all rows below c, column ii in rows ii+1..jj-1
ZeroedSoFar(m, UU, ii, jj) ==
    /\ \A c \in Idx(m), k \in Idx(m) : (c < ii /\ k > c) => IsZero(UU[k][c])
    /\ \A k \in Idx(m) : (ii < k /\ k < jj /\ ii < m) => IsZero(UU[k][ii])

\* C16: in gauss, when the pass for pivot row i is over, U[k][c] = 0 for
\* all columns c <= i and rows k > c; a step of a later pass writes row j
\* only, j below its pivot row, so it leaves rows 0..i and every other row
\* as they are and keeps the zeros; after the last pass U is upper
\* triangular and is not written again.
C16_UpperTriangular ==
    [][solver = "gauss" =>
          /\ pc' = "reduce" => ZeroedSoFar(n, U', i', j')
          /\ pc' \in {"back", "backrow", "error", "done"} => ZeroedSoFar(n, U', n, n)
          /\ pc = "reduce" =>
                /\ i < j /\ j < n
                /\ \A r \in Idx(n) : r # j => U'[r] = U[r]
                /\ \A c \in Idx(n) : c < i => U'[j][c] = U[j][c]
          /\ pc \in {"back", "backrow", "error", "done"} => U' = U]_vars

\* the pass for pivot row 0 of a 3 x 3 system is over: it has put zeros
\* where A has none, and the pass for row 1 is about to start
C16_Witness ==
    /\ solver = "gauss" /\ pc = "reduce" /\ n = 3 /\ i = 1 /\ j = 2
    /\ ~IsZero(A[<<1, 0>>]) /\ ~IsZero(A[<<2, 0>>])
    /\ IsZero(U[1][0]) /\ IsZero(U[2][0])
    /\ ~IsZero(U[2][1])

\* the working form after the whole row reduction of the augmented copy
RECURSIVE Reduced(_, _, _)
Reduced(m, UU, pair) ==
    IF pair[1] >= m THEN UU
    ELSE Reduced(m, ReduceRow(m, UU, pair[1], pair[2]), NextPair(m, pair[1], pair[2]))

\* every pivot the elimination of AA, bb meets is a non-zero number (row r
\* is final when it becomes the pivot row, so its pivot is on the diagonal
\* of the reduced form)
NonZeroPivots(m, AA, bb) ==
    LET F == Reduced(m, AugmentedCopy(m, AA, bb), FirstPair(m))
    IN  \A r \in Idx(m) : IsFinite(F[r][r]) /\ ~IsZero(F[r][r])

C18_HintSolves ==
    (solver = "gauss" /\ pc = "done" /\ NonZeroPivots(n, before.A, before.b)) =>
        LET hx == Hint(n, before.A, before.b)
        IN  /\ \A r \in Idx(n) : FEq(hx[r], x[r])
            /\ \A r \in Idx(n) : FEq(Dot(before.A, hx, r, n), before.b[r])

\* the working form of the sequential row reduction once the passes for
\* the pivot rows up to last are over
RECURSIVE ReducedThrough(_, _, _, _)
ReducedThrough(m, UU, pair, last) ==
    IF pair[1] >= m \/ pair[1] > last THEN UU
    ELSE ReducedThrough(m, ReduceRow(m, UU, pair[1], pair[2]),
                        NextPair(m, pair[1], pair[2]), last)

\* all threads have finished the rows of the current pass
AtBarrier == pc = "pass" /\ \A w \in Workers : todo[w] = {}

C20_GcEnabledAtExit == hout \in {"returned", "raised"} => gcEnabled

\* the two assertions on the inputs of gaussSimple
InputAssertions ==
    {"AssertionError: Matrix A has wrong size",
     "AssertionError: Cannot handle sparse matrix A"}

\* C21: with n = len(b), gaussSimple is past its two input checks only if
\* the keys of A are exactly the cells (i,j), 0 <= i,j < n, and with such
\* an A neither check fails; for every other A (too few keys, too many, or
\* n*n keys with a cell missing) it stops at one of the two assertions with
\* nothing copied and nothing computed, the size assertion whenever the
\* number of keys is not n*n and the density assertion otherwise.
C21_InputChecksExactKeys ==
    solver = "gaussSimple" =>
        LET nb == Size(before.b)
            exact == DOMAIN before.A = Keys(nb)
        IN  /\ pc \in {"copy", "residual", "assert", "return", "done"} => exact
            /\ exact => outcome \notin InputAssertions
            /\ outcome \in InputAssertions => pc = "raised"
            /\ ~exact =>
                  /\ pc \in {"size", "dense", "raised"}
                  /\ U = << >> /\ x = << >> /\ error = Num(0)
                  /\ pc = "raised" =>
                        outcome = IF Size(before.A) # nb * nb
                                  THEN "AssertionError: Matrix A has wrong size"
                                  ELSE "AssertionError: Cannot handle sparse matrix A"
                  /\ pc = "dense" => Size(before.A) = nb * nb

\* a dict of n*n keys, one cell missing and one key out of range, got past
\* the size check and was rejected by the density check
C21_Witness ==
    /\ solver = "gaussSimple" /\ pc = "raised"
    /\ outcome = "AssertionError: Cannot handle sparse matrix A"
    /\ Size(b) = 2 /\ Size(A) = 4
    /\ DOMAIN A # Keys(2)
    /\ \A r \in Idx(2) : <<r, r>> \in DOMAIN A
    /\ U = << >> /\ x = << >>

====
